---- MODULE Spec2Model ----
(***************************************************************************)
(* A model of src/main.py: the ShippingAnalyzer of the maritime chat and   *)
(* the chat session of create_chat_app.                                    *)
(*                                                                         *)
(* Text is modelled as TLA+ strings, read character by character with      *)
(* Len and SubSeq.  The regular expressions of analyze_query are matched   *)
(* by a small backtracking matcher that follows Python's re.search:        *)
(* the leftmost start position wins, quantifiers are greedy and give back  *)
(* characters one at a time.                                               *)
(*                                                                         *)
(* Decimal numbers are scaled integers: coordinates in 1e-4 degree,        *)
(* speed and course in tenths.                                             *)
(***************************************************************************)
EXTENDS Integers, Sequences, FiniteSets, TLC

VARIABLES
    pc,         \* position of the interaction: "idle", "submitted", "analyzed",
                \* "executed", "answered"
    query,      \* the text the user submitted
    analysis,   \* what analyze_query returned: [intent, params]
    result,     \* what the provider operation / execute_query returned
    op,         \* the operation that produced result
    calls,      \* provider operations invoked, in order
    http,       \* requests issued to the tracking API, in order, with the answer
    llm,        \* calls of the language model, in order, with the outcome
    messages,   \* st.session_state.messages, the transcript of the chat
    viz         \* what the visualization of the vessels showed, if it ran

chat == <<llm, messages, viz>>
vars == <<pc, query, analysis, result, op, calls, http, llm, messages, viz>>

(***************************************************************************)
(* Bounds of the model.                                                    *)
(***************************************************************************)
\* a query is made of at most MaxFrags fragments of the vocabulary
MaxFrags == 2
\* the random generator is started from a seed in 0..MaxSeed
MaxSeed == 4
\* the tracking API answers a vessel listing of at most MaxUpstream vessels
MaxUpstream == 11
\* a session of the chat has at most MaxTurns queries
MaxTurns == 2

(***************************************************************************)
(* Characters and strings.                                                 *)
(***************************************************************************)
Char(s, i) == SubSeq(s, i, i)

AsciiLower == "abcdefghijklmnopqrstuvwxyz"
AsciiUpper == "ABCDEFGHIJKLMNOPQRSTUVWXYZ"
\* cased letters outside ASCII that the vocabulary uses
OtherUpper == "ÃÁÉÇÓÕ"
OtherLower == "ãáéçóõ"

CharsOf(s) == { Char(s, i) : i \in 1..Len(s) }

\* [a-zA-Z]
Alpha == CharsOf(AsciiLower) \cup CharsOf(AsciiUpper)
\* \d
Digit == CharsOf("0123456789")
\* \s
Space == {" ", "\t", "\n", "\r"}

\* the lowercase letter of every uppercase one
LowerOf ==
    LET ups == AsciiUpper \o OtherUpper
        los == AsciiLower \o OtherLower
    IN  [c \in CharsOf(ups) |-> Char(los, CHOOSE i \in 1..Len(ups) : Char(ups, i) = c)]

\* str.lower() of one character
LowerChar(c) == IF c \in DOMAIN LowerOf THEN LowerOf[c] ELSE c

\* str.lower()
RECURSIVE Lower(_)
Lower(s) ==
    IF Len(s) = 0 THEN ""
    ELSE LowerChar(Char(s, 1)) \o Lower(SubSeq(s, 2, Len(s)))

\* str.strip(): whitespace removed at both ends
RECURSIVE LStrip(_)
LStrip(s) ==
    IF Len(s) > 0 /\ Char(s, 1) \in Space THEN LStrip(SubSeq(s, 2, Len(s))) ELSE s

RECURSIVE RStrip(_)
RStrip(s) ==
    IF Len(s) > 0 /\ Char(s, Len(s)) \in Space
    THEN RStrip(SubSeq(s, 1, Len(s) - 1)) ELSE s

Strip(s) == RStrip(LStrip(s))

\* sub in s
Contains(sub, s) ==
    \E i \in 1..(Len(s) - Len(sub) + 1) : SubSeq(s, i, i + Len(sub) - 1) = sub

(***************************************************************************)
(* Regular expressions.  A pattern is a sequence of items; an item is a    *)
(* character set with a repetition range, [set, min, max, cap]: max = 0    *)
(* stands for no upper limit (+ and * ), cap marks the one capturing       *)
(* group of the pattern.                                                   *)
(***************************************************************************)
Item(set, min, max, cap) == [set |-> set, min |-> min, max |-> max, cap |-> cap]

\* a literal text
Lit(s) == [i \in 1..Len(s) |-> Item({Char(s, i)}, 1, 1, FALSE)]
\* c?
Opt(set) == <<Item(set, 0, 1, FALSE)>>
\* one character of a set
OneOf(set) == <<Item(set, 1, 1, FALSE)>>
\* \s+ and \s*
SpPlus == <<Item(Space, 1, 0, FALSE)>>
SpStar == <<Item(Space, 0, 0, FALSE)>>
\* ([a-zA-Z\s]+), ([a-zA-Z0-9\s]+), (\d{9})
CapAlphaSp == <<Item(Alpha \cup Space, 1, 0, TRUE)>>
CapAlnumSp == <<Item(Alpha \cup Digit \cup Space, 1, 0, TRUE)>>
CapNineDigits == <<Item(Digit, 9, 9, TRUE)>>

NoMatch == [ok |-> FALSE, cap |-> ""]

\* how many characters of s from position pos on are in set
RECURSIVE RunLen(_, _, _)
RunLen(s, pos, set) ==
    IF pos <= Len(s) /\ Char(s, pos) \in set THEN 1 + RunLen(s, pos + 1, set) ELSE 0

\* the match of items k.. of pat at position pos of s: the first one in the
\* order a backtracking matcher tries them (longest repetition first)
RECURSIVE MatchFrom(_, _, _, _)
RECURSIVE TryCount(_, _, _, _, _)
MatchFrom(pat, k, s, pos) ==
    IF k > Len(pat) THEN [ok |-> TRUE, cap |-> ""]
    ELSE LET run == RunLen(s, pos, pat[k].set)
             hi  == IF pat[k].max = 0 \/ run < pat[k].max THEN run ELSE pat[k].max
         IN  TryCount(pat, k, s, pos, hi)
TryCount(pat, k, s, pos, n) ==
    IF n < pat[k].min THEN NoMatch
    ELSE LET rest == MatchFrom(pat, k + 1, s, pos + n)
         IN  IF rest.ok
             THEN IF pat[k].cap
                  THEN [ok |-> TRUE, cap |-> SubSeq(s, pos, pos + n - 1)]
                  ELSE rest
             ELSE TryCount(pat, k, s, pos, n - 1)

\* re.search(pat, s): the match at the leftmost position that has one;
\* .cap is match.group(1)
RECURSIVE SearchFrom(_, _, _)
SearchFrom(pat, s, pos) ==
    IF pos > Len(s) + 1 THEN NoMatch
    ELSE LET m == MatchFrom(pat, 1, s, pos)
         IN  IF m.ok THEN m ELSE SearchFrom(pat, s, pos + 1)

Search(pat, s) == SearchFrom(pat, s, 1)

\* for pattern in patterns: match = re.search(pattern, query); if match: ... break
\* the match of the first pattern of the list that matches
RECURSIVE FirstMatchFrom(_, _, _)
FirstMatchFrom(patterns, s, i) ==
    IF i > Len(patterns) THEN NoMatch
    ELSE LET m == Search(patterns[i], s)
         IN  IF m.ok THEN m ELSE FirstMatchFrom(patterns, s, i + 1)

FirstMatch(patterns, s) == FirstMatchFrom(patterns, s, 1)

(***************************************************************************)
(* The pattern lists of analyze_query.                                     *)
(***************************************************************************)
port_patterns == <<
    Lit("porto") \o SpPlus \o Lit("de") \o SpPlus \o CapAlphaSp,
    Lit("porto") \o SpPlus \o CapAlphaSp,
    Lit("porto") \o Opt({"s"}) \o SpPlus \o Lit("em") \o SpPlus \o CapAlphaSp,
    Lit("porto") \o Opt({"s"}) \o SpPlus \o Lit("próximo") \o Opt({"s"})
        \o SpPlus \o Lit("a") \o SpPlus \o CapAlphaSp,
    Lit("harbour") \o SpPlus \o Lit("of") \o SpPlus \o CapAlphaSp,
    Lit("port") \o SpPlus \o Lit("of") \o SpPlus \o CapAlphaSp >>

vessel_patterns == <<
    Lit("navio") \o SpPlus \o CapAlnumSp,
    Lit("embarcação") \o SpPlus \o CapAlnumSp,
    Lit("vessel") \o SpPlus \o CapAlnumSp,
    Lit("ship") \o SpPlus \o CapAlnumSp >>

\* the MMSI patterns without the one that allows ':' or '-'
mmsi_patterns_spaced == <<
    Lit("mmsi") \o SpPlus \o CapNineDigits >>

mmsi_patterns == <<
    Lit("mmsi") \o SpStar \o Opt({":", "-"}) \o SpStar \o CapNineDigits,
    Lit("mmsi") \o SpPlus \o CapNineDigits >>

region_patterns == <<
    Lit("região") \o SpPlus \o Lit("de") \o SpPlus \o CapAlphaSp,
    Lit("área") \o SpPlus \o Lit("de") \o SpPlus \o CapAlphaSp,
    Lit("próximo") \o SpPlus \o Lit("a") \o SpPlus \o CapAlphaSp,
    Lit("perto") \o SpPlus \o Lit("de") \o SpPlus \o CapAlphaSp,
    Lit("region") \o SpPlus \o Lit("of") \o SpPlus \o CapAlphaSp,
    Lit("near") \o SpPlus \o CapAlphaSp >>

vessel_type_patterns == <<
    Lit("navio") \o Opt({"s"}) \o SpPlus \o Lit("do") \o SpPlus \o Lit("tipo")
        \o SpPlus \o CapAlphaSp,
    Lit("navio") \o Opt({"s"}) \o SpPlus \o CapAlphaSp,
    Lit("embarcaçõe") \o Opt({"s"}) \o SpPlus \o Lit("do") \o SpPlus \o Lit("tipo")
        \o SpPlus \o CapAlphaSp,
    Lit("embarcaçõe") \o Opt({"s"}) \o SpPlus \o CapAlphaSp,
    Lit("ship") \o Opt({"s"}) \o SpPlus \o Lit("of") \o SpPlus \o Lit("type")
        \o SpPlus \o CapAlphaSp,
    CapAlphaSp \o SpPlus \o Lit("ships") >>

flag_patterns == <<
    Lit("bandeira") \o SpPlus \o Lit("d") \o OneOf({"e", "o"}) \o SpPlus \o CapAlphaSp,
    Lit("flag") \o SpPlus \o Lit("of") \o SpPlus \o CapAlphaSp >>

(***************************************************************************)
(* analyze_query.                                                          *)
(***************************************************************************)
\* params = {}
NoParams == [k \in {} |-> ""]

General == [intent |-> "general", params |-> NoParams]

\* the region table, in the order of the dict
regions == <<
    [key |-> "suez",        name |-> "Canal de Suez",         lat |-> 304276,  lon |-> 323439],
    [key |-> "gibraltar",   name |-> "Estreito de Gibraltar", lat |-> 359897,  lon |-> -56125],
    [key |-> "panama",      name |-> "Canal do Panamá",       lat |-> 91480,   lon |-> -798308],
    [key |-> "malaca",      name |-> "Estreito de Malaca",    lat |-> 17136,   lon |-> 1014661],
    [key |-> "roterdã",     name |-> "Porto de Roterdã",      lat |-> 519244,  lon |-> 44777],
    [key |-> "rotterdam",   name |-> "Porto de Roterdã",      lat |-> 519244,  lon |-> 44777],
    [key |-> "brasil",      name |-> "Costa do Brasil",       lat |-> -239619, lon |-> -463042],
    [key |-> "brazil",      name |-> "Costa do Brasil",       lat |-> -239619, lon |-> -463042],
    [key |-> "los angeles", name |-> "Porto de Los Angeles",  lat |-> 337283,  lon |-> -1182712],
    [key |-> "shanghai",    name |-> "Porto de Shanghai",     lat |-> 312304,  lon |-> 1214737] >>

\* the vessel type table, in the order of the dict
vessel_types == <<
    [key |-> "cargo",       value |-> "Cargo"],
    [key |-> "carga",       value |-> "Cargo"],
    [key |-> "passageiros", value |-> "Passenger"],
    [key |-> "passenger",   value |-> "Passenger"],
    [key |-> "petroleiro",  value |-> "Tanker"],
    [key |-> "tanker",      value |-> "Tanker"],
    [key |-> "pesca",       value |-> "Fishing"],
    [key |-> "fishing",     value |-> "Fishing"],
    [key |-> "rebocador",   value |-> "Tug"],
    [key |-> "tug",         value |-> "Tug"],
    [key |-> "pleasure",    value |-> "Pleasure Craft"],
    [key |-> "recreio",     value |-> "Pleasure Craft"] >>

\* for key, value in table.items(): if key in text.lower(): ... break
\* the index of the first entry whose key the text contains, 0 when none
RECURSIVE FirstKeyFrom(_, _, _)
FirstKeyFrom(table, text, i) ==
    IF i > Len(table) THEN 0
    ELSE IF Contains(table[i].key, Lower(text)) THEN i
    ELSE FirstKeyFrom(table, text, i + 1)

\* the loop without its break: the last entry whose key the text contains
LastKey(table, text) ==
    LET hits == { i \in 1..Len(table) : Contains(table[i].key, Lower(text)) }
    IN  IF hits = {} THEN 0 ELSE CHOOSE i \in hits : \A j \in hits : j <= i

FirstKey(table, text) == FirstKeyFrom(table, text, 1)

\* the port loop: it runs first, on intent "general" and empty params
PortStep(q) ==
    LET m == FirstMatch(port_patterns, q)
    IN  IF m.ok
        THEN [intent |-> "port_info", params |-> [port_name |-> Strip(m.cap)]]
        ELSE General

\* the vessel-name loop without "if intent == 'general'"
VesselStepUnguarded(a, q) ==
    LET m == FirstMatch(vessel_patterns, q)
    IN  IF m.ok
        THEN [intent |-> "vessel_search", params |-> [query |-> Strip(m.cap)] @@ a.params]
        ELSE a

\* the vessel-name loop, under "if intent == 'general'"
VesselStep(a, q) ==
    IF a.intent # "general" THEN a
    ELSE LET m == FirstMatch(vessel_patterns, q)
         IN  IF m.ok
             THEN [intent |-> "vessel_search", params |-> [query |-> Strip(m.cap)]]
             ELSE a

\* the MMSI loop
MmsiStep(a, q) ==
    IF a.intent # "general" THEN a
    ELSE LET m == FirstMatch(mmsi_patterns, q)
         IN  IF m.ok
             THEN [intent |-> "vessel_by_mmsi", params |-> [mmsi |-> Strip(m.cap)]]
             ELSE a

\* the region loop: a known region gives its coordinates, any other text
\* is taken as a port name
RegionStep(a, q) ==
    IF a.intent # "general" THEN a
    ELSE LET m == FirstMatch(region_patterns, q)
             region_name == Strip(m.cap)
             i == FirstKey(regions, region_name)
         IN  IF ~m.ok THEN a
             ELSE IF i # 0
             THEN [intent |-> "ships_in_area",
                   params |-> [lat |-> regions[i].lat, lon |-> regions[i].lon,
                               region_name |-> regions[i].name]]
             ELSE [intent |-> "port_info", params |-> [port_name |-> region_name]]

\* the vessel-type loop without its "if intent == 'general'" fallback: a text
\* with no known type word leaves the intent as it was
VesselTypeStepNoFallback(a, q) ==
    IF a.intent # "general" THEN a
    ELSE LET m == FirstMatch(vessel_type_patterns, q)
             i == FirstKey(vessel_types, Strip(m.cap))
         IN  IF ~m.ok \/ i = 0 THEN a
             ELSE [intent |-> "vessel_type_search",
                   params |-> [vessel_type |-> vessel_types[i].value]]

\* the vessel-type loop: a known type word gives the canonical type, any
\* other text is kept as it is
VesselTypeStep(a, q) ==
    IF a.intent # "general" THEN a
    ELSE LET m == FirstMatch(vessel_type_patterns, q)
             vessel_type == Strip(m.cap)
             i == FirstKey(vessel_types, vessel_type)
         IN  IF ~m.ok THEN a
             ELSE [intent |-> "vessel_type_search",
                   params |-> [vessel_type |->
                                 IF i # 0 THEN vessel_types[i].value ELSE vessel_type]]

\* the flag loop
FlagStep(a, q) ==
    IF a.intent # "general" THEN a
    ELSE LET m == FirstMatch(flag_patterns, q)
         IN  IF m.ok
             THEN [intent |-> "flag_search", params |-> [flag |-> Strip(m.cap)]]
             ELSE a

analyze_query(text) ==
    LET q == Lower(text)
    IN  FlagStep(VesselTypeStep(RegionStep(MmsiStep(VesselStep(PortStep(q), q), q), q), q), q)

(***************************************************************************)
(* The tracking API.  An HTTP call either raises or answers a status and   *)
(* a body; response.json() raises on a body that is not JSON.  A body is   *)
(* the JSON the endpoint sends (an array for ports and vessels, an object  *)
(* for one vessel), null, or, for ports, an object instead of the array.   *)
(***************************************************************************)
ship_types == <<"Cargo", "Tanker", "Passenger", "Fishing", "Tug", "Pleasure Craft">>
ship_flags == <<"Panama", "Liberia", "Marshall Islands", "Singapore", "Malta", "Bahamas">>
ports == <<"Rotterdam", "Singapore", "Shanghai", "Antwerp", "Hamburg", "Los Angeles">>
statuses == <<"Underway using engine", "At anchor", "Moored", "Stopped",
              "Restricted maneuverability">>

\* the i-th port and the i-th vessel the tracking API knows
UpstreamPort(i) == [id |-> i, name |-> IF i = 1 THEN "Santos" ELSE "Santos Brasil"]

\* the i-th vessel of the listing; the API knows no name for the fourth
UpstreamVessel(i) ==
    LET vessel == [mmsi |-> ToString(200000000 + i), name |-> "SHIP " \o ToString(i),
                   type |-> ship_types[(i % 6) + 1], flag |-> ship_flags[(i % 5) + 1],
                   destination |-> IF i % 2 = 0 THEN "santos" ELSE "Rotterdam",
                   last_port |-> IF i % 3 = 0 THEN "santos" ELSE "Hamburg"]
    IN  IF i = 4 THEN [k \in DOMAIN vessel \ {"name"} |-> vessel[k]] ELSE vessel

Raise == [kind |-> "raise", message |-> "Connection refused"]
Answer(status, body) == [kind |-> "response", status |-> status, body |-> body]

JsonList(items) == [json |-> "list", items |-> items]
JsonNull == [json |-> "null"]
OtherBodies == { [json |-> "invalid"], JsonNull }
PortBodies == OtherBodies \cup { [json |-> "object"] } \cup
    { JsonList([i \in 1..n |-> UpstreamPort(i)]) : n \in 0..2 }
VesselListBodies == OtherBodies \cup
    { JsonList([i \in 1..n |-> UpstreamVessel(i)]) : n \in 0..MaxUpstream }
VesselBodies == OtherBodies \cup { [json |-> "object", value |-> UpstreamVessel(1)] }

Responses(bodies) ==
    {Raise} \cup { Answer(st, [json |-> "invalid"]) : st \in {404, 500} }
            \cup { Answer(200, b) : b \in bodies }

\* one requests.get, as the log keeps it
Request(endpoint, name, r) == [endpoint |-> endpoint, name |-> name, response |-> r]

Error(text) == [error |-> text]

\* what "except Exception as e" makes of a raising call
FetchError(message) == Error("Error fetching data: " \o message)

\* "not port_data or len(port_data) == 0"
IsEmptyJson(body) ==
    \/ body.json = "null"
    \/ body.json = "list" /\ Len(body.items) = 0

(***************************************************************************)
(* The provider operations.  Each takes its arguments and the answers of   *)
(* the HTTP calls it may make and gives [ret, http]: what it returns and   *)
(* the requests it issued.                                                 *)
(***************************************************************************)
\* the port lookup that takes only a server error for a failure
get_port_info_5xx(port_name, r) ==
    [http |-> <<Request("ports", port_name, r)>>,
     ret  |-> IF r.kind = "raise" THEN FetchError(r.message)
              ELSE IF r.status >= 500
              THEN Error("Failed to fetch port data: " \o ToString(r.status))
              ELSE IF r.body.json = "invalid" THEN FetchError("Expecting value")
              ELSE IF IsEmptyJson(r.body)
              THEN Error("No ports found with name: " \o port_name)
              ELSE IF r.body.json # "list" THEN FetchError("0")
              ELSE [port |-> r.body.items[1]]]

get_port_info(port_name, r) ==
    [http |-> <<Request("ports", port_name, r)>>,
     ret  |-> IF r.kind = "raise" THEN FetchError(r.message)
              ELSE IF r.status # 200
              THEN Error("Failed to fetch port data: " \o ToString(r.status))
              ELSE IF r.body.json = "invalid" THEN FetchError("Expecting value")
              ELSE IF IsEmptyJson(r.body)
              THEN Error("No ports found with name: " \o port_name)
              ELSE IF r.body.json # "list" THEN FetchError("0")
              ELSE [port |-> r.body.items[1]]]

get_ship_by_mmsi(mmsi, r) ==
    [http |-> <<Request("vessels/" \o mmsi, "", r)>>,
     ret  |-> IF r.kind = "raise" THEN FetchError(r.message)
              ELSE IF r.status # 200
              THEN Error("Failed to fetch vessel data: " \o ToString(r.status))
              ELSE IF r.body.json = "invalid" THEN FetchError("Expecting value")
              ELSE [ship |-> IF r.body.json = "object" THEN r.body.value ELSE JsonNull]]

\* all_vessels[:limit] if len(all_vessels) > limit else all_vessels
\* the last vessels of the listing in place of the first
LimitedFromEnd(all_vessels, limit) ==
    IF Len(all_vessels) > limit
    THEN SubSeq(all_vessels, Len(all_vessels) - limit + 1, Len(all_vessels))
    ELSE all_vessels

\* all_vessels[:limit] if len(all_vessels) > limit else all_vessels
Limited(all_vessels, limit) ==
    IF Len(all_vessels) > limit THEN SubSeq(all_vessels, 1, limit) ELSE all_vessels

search_vessels(q, limit, r) ==
    [http |-> <<Request("vessels", q, r)>>,
     ret  |-> IF r.kind = "raise" THEN FetchError(r.message)
              ELSE IF r.status # 200
              THEN Error("Failed to fetch vessels data: " \o ToString(r.status))
              ELSE IF r.body.json = "invalid" THEN FetchError("Expecting value")
              ELSE IF r.body.json # "list"
              THEN FetchError("object of type 'NoneType' has no len()")
              ELSE [ships |-> Limited(r.body.items, limit)]]

\* the port lookup of get_ships_near_port went through: port_data[0] exists
PortFound(r) ==
    /\ r.kind = "response"
    /\ r.status = 200
    /\ r.body.json = "list"
    /\ Len(r.body.items) > 0

\* vessel.get("destination") == port_name or vessel.get("last_port") == port_name
PortRelated(port_name, vessel) ==
    vessel.destination = port_name \/ vessel.last_port = port_name

\* r2 answers the vessels request, which is made only once the port is found
get_ships_near_port(port_name, r1, r2) ==
    LET first == get_port_info(port_name, r1)
    IN  IF ~PortFound(r1) THEN first
        ELSE [http |-> first.http \o <<Request("vessels", "", r2)>>,
              ret  |-> IF r2.kind = "raise" THEN FetchError(r2.message)
                       ELSE IF r2.status # 200
                       THEN Error("Failed to fetch vessels data: " \o ToString(r2.status))
                       ELSE IF r2.body.json = "invalid" THEN FetchError("Expecting value")
                       ELSE IF r2.body.json # "list"
                       THEN FetchError("'NoneType' object is not iterable")
                       ELSE [ships |-> SelectSeq(r2.body.items,
                                                  LAMBDA vessel : PortRelated(port_name, vessel)),
                             port  |-> first.ret.port]]

(***************************************************************************)
(* The random generator.  A run of it is a tape of draws u in 0..65535,    *)
(* u / 65536 being what random.random() returns.  Tape 0 draws the least   *)
(* value every time, tape 1 the greatest, every other seed a               *)
(* linear-congruential sequence.                                           *)
(***************************************************************************)
Seeds == 0..MaxSeed

NextDraw(seed, u) ==
    IF seed = 0 THEN 0
    ELSE IF seed = 1 THEN 65535
    ELSE (u * 75 + 74 + seed) % 65536

\* random.randint(a, b), for b - a < 32768
RandInt(a, b, u) == a + (u * (b - a + 1)) \div 65536
\* random.randint(100000000, 999999999)
RandMmsi(u) == 100000000 + u * 13733 + (u * 7844) \div 65535
\* random.choice(list)
RandChoice(list, u) == list[1 + (u * Len(list)) \div 65536]
\* round(random.uniform(0, hi), 1), in tenths
RandTenths(hi, u) == (u * hi * 10 + 32768) \div 65536
\* center + (random.random() - 0.5) * (radius / 50), in 1e-4 degree
Jitter(center, radius, u) == center + (((u * 10000) \div 65536 - 5000) * radius) \div 50

\* num_ships = random.randint(5, 15)
NumShips(u) == RandInt(5, 15, u)

\* the draws of one ship, in the order the dict literal makes them
ShipDraws(seed, u0) ==
    LET d1 == NextDraw(seed, u0)   d2 == NextDraw(seed, d1)
        d3 == NextDraw(seed, d2)   d4 == NextDraw(seed, d3)
        d5 == NextDraw(seed, d4)   d6 == NextDraw(seed, d5)
        d7 == NextDraw(seed, d6)   d8 == NextDraw(seed, d7)
        d9 == NextDraw(seed, d8)   d10 == NextDraw(seed, d9)
    IN  <<d1, d2, d3, d4, d5, d6, d7, d8, d9, d10>>

\* a ship whose course is drawn from uniform(0, 360)
MakeShipFullCircle(latitude, longitude, radius, d) ==
    [mmsi        |-> ToString(RandMmsi(d[1])),
     name        |-> "VESSEL " \o ToString(RandInt(1000, 9999, d[2])),
     type        |-> RandChoice(ship_types, d[3]),
     speed       |-> RandTenths(20, d[4]),
     course      |-> RandTenths(360, d[5]),
     latitude    |-> Jitter(latitude, radius, d[6]),
     longitude   |-> Jitter(longitude, radius, d[7]),
     flag        |-> RandChoice(ship_flags, d[8]),
     destination |-> RandChoice(ports, d[9]),
     status      |-> RandChoice(statuses, d[10])]

MakeShip(latitude, longitude, radius, d) ==
    [mmsi        |-> ToString(RandMmsi(d[1])),
     name        |-> "VESSEL " \o ToString(RandInt(1000, 9999, d[2])),
     type        |-> RandChoice(ship_types, d[3]),
     speed       |-> RandTenths(20, d[4]),
     course      |-> RandTenths(359, d[5]),
     latitude    |-> Jitter(latitude, radius, d[6]),
     longitude   |-> Jitter(longitude, radius, d[7]),
     flag        |-> RandChoice(ship_flags, d[8]),
     destination |-> RandChoice(ports, d[9]),
     status      |-> RandChoice(statuses, d[10])]

\* for i in range(num_ships): ships.append(ship)
RECURSIVE MakeShips(_, _, _, _, _, _)
MakeShips(latitude, longitude, radius, n, seed, u0) ==
    IF n = 0 THEN <<>>
    ELSE LET d == ShipDraws(seed, u0)
         IN  <<MakeShip(latitude, longitude, radius, d)>>
             \o MakeShips(latitude, longitude, radius, n - 1, seed, d[10])

Note ==
    "Dados simulados para demonstração. API MyShipTracking não suporta busca por área geográfica."

\* seed is the outcome of the random generator
get_ships_in_area(latitude, longitude, radius, seed) ==
    LET d0 == NextDraw(seed, seed)
    IN  [http |-> <<>>,
         ret  |-> [ships |-> MakeShips(latitude, longitude, radius, NumShips(d0), seed, d0),
                   note  |-> Note]]

(***************************************************************************)
(* execute_query.  It gives [ret, http, calls]: what it returns, the       *)
(* requests issued and the provider operations invoked, each with its      *)
(* arguments and what it returned.  r is the answer of the tracking API,   *)
(* seed the outcome of the random generator, for the branches that use     *)
(* them.                                                                   *)
(***************************************************************************)
Call(name, args, out) == [op |-> name, args |-> args, ret |-> out.ret]

\* ship.get("type", "").lower() == params["vessel_type"].lower()
TypeIs(vessel_type, ship) == Lower(ship.type) = Lower(vessel_type)

\* the flag filter left out
FlagHasAny(flag, ship) == TRUE

\* params["flag"].lower() in ship.get("flag", "").lower()
FlagHas(flag, ship) == Contains(Lower(flag), Lower(ship.flag))

Dispatch(name, args, out, ret) ==
    [ret |-> ret, http |-> out.http, calls |-> <<Call(name, args, out)>>]

execute_query(a, r, seed) ==
    LET intent == a.intent
        params == a.params
    IN  IF intent = "port_info"
        THEN LET out == get_port_info(params.port_name, r)
             IN  Dispatch("get_port_info", <<params.port_name>>, out, out.ret)
        ELSE IF intent = "vessel_search"
        THEN LET out == search_vessels(params.query, 10, r)
             IN  Dispatch("search_vessels", <<params.query>>, out, out.ret)
        ELSE IF intent = "vessel_by_mmsi"
        THEN LET out == get_ship_by_mmsi(params.mmsi, r)
             IN  Dispatch("get_ship_by_mmsi", <<params.mmsi>>, out, out.ret)
        ELSE IF intent = "ships_in_area"
        THEN LET out == get_ships_in_area(params.lat, params.lon, 50, seed)
             IN  Dispatch("get_ships_in_area", <<params.lat, params.lon>>, out, out.ret)
        ELSE IF intent = "vessel_type_search"
        THEN LET out == get_ships_in_area(0, 0, 50, seed)
             IN  Dispatch("get_ships_in_area", <<0, 0>>, out,
                          [ships |-> SelectSeq(out.ret.ships,
                                       LAMBDA ship : TypeIs(params.vessel_type, ship))])
        ELSE IF intent = "flag_search"
        THEN LET out == get_ships_in_area(0, 0, 50, seed)
             IN  Dispatch("get_ships_in_area", <<0, 0>>, out,
                          [ships |-> SelectSeq(out.ret.ships,
                                       LAMBDA ship : FlagHas(params.flag, ship))])
        ELSE [ret |-> [message |-> "Consulta geral", intent |-> intent],
              http |-> <<>>, calls |-> <<>>]

(***************************************************************************)
(* generate_response.  The two prompt templates that the source closes     *)
(* with two quotes (lines 429 and 455) are read as closed with three, as   *)
(* the other two are.  g is what the language model does with the prompt:  *)
(* it raises, or it answers with a text.  The function gives [ret, llm]:   *)
(* the text it returns and the calls of the language model it made.        *)
(***************************************************************************)
\* ship.get(key, default)
Get(ship, key, default) == IF key \in DOMAIN ship THEN ship[key] ELSE default

\* "ships" in query_result and len(query_result["ships"]) > 0
HasShips(query_result) ==
    "ships" \in DOMAIN query_result /\ Len(query_result.ships) > 0

\* one vessel more than the five the code takes
FirstSix(ships) == SubSeq(ships, 1, IF Len(ships) < 6 THEN Len(ships) ELSE 6)

\* ships[:5]
FirstFive(ships) == SubSeq(ships, 1, IF Len(ships) < 5 THEN Len(ships) ELSE 5)

\* the prompt: which template, and what is interpolated into it
prompt_text(q, query_result) ==
    IF HasShips(query_result)
    THEN LET ships == query_result.ships
         IN  [template |-> "ships", query |-> q,
              data |-> IF Len(ships) > 5 THEN FirstFive(ships) ELSE ships,
              total |-> Len(ships)]
    ELSE IF "port" \in DOMAIN query_result
    THEN [template |-> "port", query |-> q, data |-> query_result.port]
    ELSE IF "ship" \in DOMAIN query_result
    THEN [template |-> "ship", query |-> q, data |-> query_result.ship]
    ELSE [template |-> "none", query |-> q]

GeminiRaise == [kind |-> "raise", message |-> "503 The service is currently unavailable."]
GeminiText(text) == [kind |-> "text", text |-> text]
GeminiOutcomes == { GeminiRaise, GeminiText("Segue a análise dos dados de tráfego marítimo.") }

Desconhecido == "Desconhecido"

\* the bullet (U+2022) that opens the lines of a vessel, written in ASCII
Bullet == "*"

\* the lines of one vessel in the fallback text
ShipLines(ship) ==
    Bullet \o " " \o Get(ship, "name", Desconhecido)
         \o " (MMSI: " \o Get(ship, "mmsi", Desconhecido) \o ")"
         \o "\n  Tipo: " \o Get(ship, "type", Desconhecido)
         \o "\n  Bandeira: " \o Get(ship, "flag", Desconhecido)
         \o "\n  Destino: " \o Get(ship, "destination", Desconhecido)

\* for ship in ships: response += ...   (len(ships) <= 5)
RECURSIVE ListAll(_)
ListAll(ships) ==
    IF ships = <<>> THEN ""
    ELSE "\n\n" \o ShipLines(Head(ships)) \o ListAll(Tail(ships))

\* for ship in ships[:5]: response += ...
RECURSIVE ListFirst(_)
ListFirst(ships) ==
    IF ships = <<>> THEN ""
    ELSE ShipLines(Head(ships)) \o "\n\n" \o ListFirst(Tail(ships))

NoAnswer ==
    "Desculpe, não consegui processar sua consulta. Por favor, tente reformular sua pergunta sobre transporte marítimo."

\* the except branch of generate_response
Fallback(query_result) ==
    IF "error" \in DOMAIN query_result
    THEN "Desculpe, não consegui processar sua consulta. Ocorreu um erro: "
             \o query_result.error
    ELSE IF HasShips(query_result)
    THEN LET ships == query_result.ships
             response == "Encontrei " \o ToString(Len(ships))
                             \o " navios relacionados à sua consulta. "
         IN  IF Len(ships) <= 5
             THEN response \o ListAll(ships)
             ELSE response \o "Aqui estão os primeiros 5:\n\n" \o ListFirst(FirstFive(ships))
    ELSE NoAnswer

\* a retry of the language model after a failure, which the code does not make
generate_response_retry(q, query_result, g) ==
    LET call == [prompt |-> prompt_text(q, query_result), outcome |-> g]
    IN  [llm |-> IF g.kind = "raise" THEN <<call, call>> ELSE <<call>>,
         ret |-> IF g.kind = "text" THEN g.text ELSE Fallback(query_result)]

generate_response(q, query_result, g) ==
    LET call == [prompt |-> prompt_text(q, query_result), outcome |-> g]
    IN  [llm |-> <<call>>,
         ret |-> IF g.kind = "text" THEN g.text ELSE Fallback(query_result)]

(***************************************************************************)
(* The visualization of create_chat_app: the table of the vessels and the  *)
(* counts per type and per flag computed from it.                          *)
(***************************************************************************)
\* ship.get(key): <<value>>, or <<>> for None
GetOrNone(ship, key) == IF key \in DOMAIN ship THEN <<ship[key]>> ELSE <<>>

\* one row of ships_df
Row(ship) ==
    [nome |-> Get(ship, "name", Desconhecido), mmsi |-> Get(ship, "mmsi", Desconhecido),
     tipo |-> Get(ship, "type", Desconhecido), bandeira |-> Get(ship, "flag", Desconhecido),
     velocidade |-> Get(ship, "speed", 0), curso |-> Get(ship, "course", 0),
     latitude |-> GetOrNone(ship, "latitude"),
     longitude |-> GetOrNone(ship, "longitude"),
     destino |-> Get(ship, "destination", Desconhecido),
     status |-> Get(ship, "status", Desconhecido)]

\* pd.DataFrame([... for ship in ships if ship.get("name")])
ships_df(ships) ==
    LET named == SelectSeq(ships, LAMBDA ship : Get(ship, "name", "") # "")
    IN  [i \in 1..Len(named) |-> Row(named[i])]

\* df[column].value_counts(): each value of the column with the rows having it
value_counts(df, column) ==
    [v \in { df[i][column] : i \in 1..Len(df) } |->
        Cardinality({ i \in 1..Len(df) : df[i][column] = v })]

\* ships_df.dropna(subset=["latitude", "longitude"])
map_data(df) ==
    SelectSeq(df, LAMBDA row : row.latitude # <<>> /\ row.longitude # <<>>)

\* what the expander shows
Visualization(ships) ==
    LET df == ships_df(ships)
    IN  IF Len(df) > 0
        THEN [table |-> df, type_counts |-> value_counts(df, "tipo"),
              flag_counts |-> value_counts(df, "bandeira"), map |-> map_data(df)]
        ELSE [table |-> df]

\* the condition under which the button is offered
OffersVisualization(query_result) ==
    HasShips(query_result) /\ "note" \notin DOMAIN query_result

(***************************************************************************)
(* The inputs.  A query is a run of at most MaxFrags fragments, or a       *)
(* region / vessel-type phrase followed by a keyword of the tables.        *)
(***************************************************************************)
Fragments == {
    "porto de santos ", "navio atlas 9 ", "MMSI: 123456789", "região de suez ",
    "navios tipo cargo ", "bandeira de Panama ",
    "porto de ", "mmsi ", "roterdã", "9", "xyzzy plugh", "tanker", " ships" }

RECURSIVE FragQueries(_)
FragQueries(n) ==
    IF n = 0 THEN {""}
    ELSE LET shorter == FragQueries(n - 1)
         IN  shorter \cup { q \o f : q \in shorter, f \in Fragments }

RegionPhrases == {"região de ", "área de ", "próximo a ", "perto de ", "Region of ", "near "}
TypePhrases == {"navios do tipo ", "navios ", "embarcações do tipo ", "embarcações ",
                "ships of type "}

RegionQueries == { p \o regions[i].key : p \in RegionPhrases, i \in 1..Len(regions) }
TypeQueries ==
    { p \o vessel_types[i].key : p \in TypePhrases, i \in 1..Len(vessel_types) }
    \cup { vessel_types[i].key \o " ships" : i \in 1..Len(vessel_types) }

\* the queries the specification gives as examples
Examples == {"porto de santos", "mmsi 123456789", "navios tipo cargo", "xyzzy plugh"}

Queries == FragQueries(MaxFrags) \cup RegionQueries \cup TypeQueries \cup Examples

\* arguments of the provider operations when they are called directly
PortNames == {"santos", "Rotterdam", "atlantis"}
Limits == {0, 1, 5, 10}
Centers == {<<0, 0>>, <<-239619, -463042>>}
Radii == {50, 100}

(***************************************************************************)
(* The state machine.                                                      *)
(***************************************************************************)
None == [none |-> TRUE]

Message(role, content) == [role |-> role, content |-> content]

\* the transcript a session starts with
Greeting ==
    Message("assistant", "Olá! Sou seu assistente especializado em transporte marítimo. Como posso ajudá-lo hoje? Você pode me perguntar sobre navios específicos, portos, rotas marítimas e muito mais.")

Init ==
    /\ pc = "idle"
    /\ query = ""
    /\ analysis = None
    /\ result = None
    /\ op = "none"
    /\ calls = <<>>
    /\ http = <<>>
    /\ llm = <<>>
    /\ messages = <<Greeting>>
    /\ viz = None

\* the user submits a query and analyze_query classifies it
Analyze(q) ==
    /\ pc = "idle"
    /\ pc' = "analyzed"
    /\ query' = q
    /\ analysis' = analyze_query(q)
    /\ result' = None
    /\ op' = "none"
    /\ calls' = <<>>
    /\ http' = <<>>
    /\ UNCHANGED chat

Finish(name, out) ==
    /\ pc' = "executed"
    /\ op' = name
    /\ result' = out.ret
    /\ calls' = out.calls
    /\ http' = out.http
    /\ UNCHANGED chat

\* the answers the tracking API may give to the request an intent makes
ResponsesFor(intent) ==
    IF intent = "port_info" THEN Responses(PortBodies)
    ELSE IF intent = "vessel_search" THEN Responses(VesselListBodies)
    ELSE Responses(VesselBodies)

\* execute_query on the analysis of the query
Execute ==
    /\ pc = "analyzed"
    /\ \/ /\ analysis.intent \in {"port_info", "vessel_search", "vessel_by_mmsi"}
          /\ \E r \in ResponsesFor(analysis.intent) :
                 Finish("execute_query", execute_query(analysis, r, 0))
       \/ /\ analysis.intent \in {"ships_in_area", "vessel_type_search", "flag_search"}
          /\ \E seed \in Seeds :
                 Finish("execute_query", execute_query(analysis, Raise, seed))
       \/ /\ analysis.intent = "general"
          /\ Finish("execute_query", execute_query(analysis, Raise, 0))
    /\ UNCHANGED <<query, analysis>>

Direct(name, args, out) ==
    /\ pc = "idle"
    /\ Finish(name, [ret |-> out.ret, http |-> out.http,
                     calls |-> <<Call(name, args, out)>>])
    /\ query' = ""
    /\ analysis' = None

\* get_ships_near_port called on the analyzer
ShipsNearPort ==
    \E port_name \in PortNames, r1 \in Responses(PortBodies) :
        IF PortFound(r1)
        THEN \E r2 \in Responses(VesselListBodies) :
                 Direct("get_ships_near_port", <<port_name>>,
                        get_ships_near_port(port_name, r1, r2))
        ELSE Direct("get_ships_near_port", <<port_name>>,
                    get_ships_near_port(port_name, r1, Raise))

\* get_ships_in_area called on the analyzer
ShipsInArea ==
    \E c \in Centers, radius \in Radii, seed \in Seeds :
        Direct("get_ships_in_area", <<c[1], c[2], radius>>,
               get_ships_in_area(c[1], c[2], radius, seed))

\* search_vessels called on the analyzer, with a limit
SearchVessels ==
    \E q \in {"atlas"}, limit \in Limits, r \in Responses(VesselListBodies) :
        Direct("search_vessels", <<q, limit>>, search_vessels(q, limit, r))

\* the interaction is over: the next one starts from a fresh state
Reset ==
    /\ pc = "executed"
    /\ pc' = "idle"
    /\ query' = ""
    /\ analysis' = None
    /\ result' = None
    /\ op' = "none"
    /\ calls' = <<>>
    /\ http' = <<>>
    /\ UNCHANGED chat

Next ==
    \/ \E q \in Queries : Analyze(q)
    \/ Execute
    \/ ShipsNearPort
    \/ ShipsInArea
    \/ SearchVessels
    \/ Reset

Spec == Init /\ [][Next]_vars

(***************************************************************************)
(* create_chat_app: one session of the chat.  Each query the user submits  *)
(* runs the body of "if query := st.chat_input(...)" from top to bottom:   *)
(* the user message is appended, then analyze_query, execute_query and     *)
(* generate_response run in this order inside one try, the assistant       *)
(* message is appended and the visualization is offered.  With the bodies  *)
(* the tracking API is assumed to send no step raises, so the except       *)
(* branch of lines 620-622 is not taken.                                   *)
(***************************************************************************)
\* the queries of a session, one for each kind of result
ChatQueries == { "porto de santos", "navio atlas 9", "mmsi 123456789", "região de suez",
                 "navios tipo cargo", "xyzzy plugh" }

\* what the tracking API answers during a session
ChatListSizes == {0, 4, 6, MaxUpstream}
ChatResponses(intent) ==
    IF intent = "port_info"
    THEN { Raise, Answer(404, [json |-> "invalid"]), Answer(200, JsonList(<<>>)),
           Answer(200, JsonList(<<UpstreamPort(1)>>)) }
    ELSE IF intent = "vessel_search"
    THEN { Answer(500, [json |-> "invalid"]) } \cup
         { Answer(200, JsonList([i \in 1..n |-> UpstreamVessel(i)])) : n \in ChatListSizes }
    ELSE { Raise, Answer(200, [json |-> "object", value |-> UpstreamVessel(1)]) }

ChatSeeds == { seed \in Seeds : seed % 2 = 0 }

\* user messages in the transcript
Turns == (Len(messages) - 1) \div 2

\* a submission that starts the transcript over, which the code does not do
SubmitAfresh(q) ==
    /\ pc \in {"idle", "answered"}
    /\ Turns < MaxTurns
    /\ pc' = "submitted"
    /\ messages' = <<Greeting, Message("user", q)>>
    /\ query' = q
    /\ analysis' = None
    /\ result' = None
    /\ op' = "none"
    /\ calls' = <<>>
    /\ http' = <<>>
    /\ llm' = <<>>
    /\ viz' = None

\* st.chat_input returns a query: the user message is appended
Submit(q) ==
    /\ pc \in {"idle", "answered"}
    /\ Turns < MaxTurns
    /\ pc' = "submitted"
    /\ messages' = Append(messages, Message("user", q))
    /\ query' = q
    /\ analysis' = None
    /\ result' = None
    /\ op' = "none"
    /\ calls' = <<>>
    /\ http' = <<>>
    /\ llm' = <<>>
    /\ viz' = None

\* query_analysis = analyzer.analyze_query(query)
ChatAnalyze ==
    /\ pc = "submitted"
    /\ pc' = "analyzed"
    /\ analysis' = analyze_query(query)
    /\ UNCHANGED <<query, result, op, calls, http, chat>>

\* query_result = analyzer.execute_query(query_analysis)
ChatExecute ==
    /\ pc = "analyzed"
    /\ \/ /\ analysis.intent \in {"port_info", "vessel_search", "vessel_by_mmsi"}
          /\ \E r \in ChatResponses(analysis.intent) :
                 Finish("execute_query", execute_query(analysis, r, 0))
       \/ /\ analysis.intent \in {"ships_in_area", "vessel_type_search", "flag_search"}
          /\ \E seed \in ChatSeeds :
                 Finish("execute_query", execute_query(analysis, Raise, seed))
       \/ /\ analysis.intent = "general"
          /\ Finish("execute_query", execute_query(analysis, Raise, 0))
    /\ UNCHANGED <<query, analysis>>

\* response = analyzer.generate_response(query, query_result); the response
\* is shown and appended; show_viz is what st.button returns
Respond ==
    /\ pc = "executed"
    /\ \E g \in GeminiOutcomes, show_viz \in BOOLEAN :
           LET out == generate_response(query, result, g)
           IN  /\ llm' = out.llm
               /\ messages' = Append(messages, Message("assistant", out.ret))
               /\ viz' = IF OffersVisualization(result) /\ show_viz
                         THEN Visualization(result.ships)
                         ELSE None
    /\ pc' = "answered"
    /\ UNCHANGED <<query, analysis, result, op, calls, http>>

ChatNext ==
    \/ \E q \in ChatQueries : Submit(q)
    \/ ChatAnalyze
    \/ ChatExecute
    \/ Respond

Chat == Init /\ [][ChatNext]_vars

(***************************************************************************)
(* Properties of the classification and of the provider operations.       *)
(***************************************************************************)
\* the pattern groups in the order analyze_query evaluates them
Groups == <<port_patterns, vessel_patterns, mmsi_patterns, region_patterns,
            vessel_type_patterns, flag_patterns>>

\* some pattern of group g matches q
Matches(g, q) == \E i \in 1..Len(Groups[g]) : Search(Groups[g][i], q).ok

Matching(q) == { g \in 1..Len(Groups) : Matches(g, q) }

\* the first group, in order, that has a matching pattern; 0 when none has
FirstGroup(q) ==
    LET matching == Matching(q)
    IN  IF matching = {} THEN 0
        ELSE CHOOSE g \in matching : \A h \in matching : g <= h

\* what group g makes of q when it is the only group evaluated
GroupAlone(g, q) ==
    CASE g = 1 -> PortStep(q)
      [] g = 2 -> VesselStep(General, q)
      [] g = 3 -> MmsiStep(General, q)
      [] g = 4 -> RegionStep(General, q)
      [] g = 5 -> VesselTypeStep(General, q)
      [] g = 6 -> FlagStep(General, q)
      [] OTHER -> General

Intents == {"port_info", "vessel_search", "vessel_by_mmsi", "ships_in_area",
            "vessel_type_search", "flag_search", "general"}

Range(f) == { f[i] : i \in DOMAIN f }

\* the indices of the table entries whose key the text contains
KeysIn(table, text) == { i \in 1..Len(table) : Contains(table[i].key, Lower(text)) }

Least(set) == CHOOSE i \in set : \A j \in set : i <= j

\* C1: the intent and the params analyze_query returns are those of the first
\* group, in the order port, vessel name, MMSI, region, vessel type, flag, that
\* has a matching pattern; no later group changes them
C1_FirstGroupDecides ==
    pc = "analyzed" =>
        LET q == Lower(query)
        IN  analysis = GroupAlone(FirstGroup(q), q)

\* a query that patterns of two groups match, classified by the earlier one
C1_Witness ==
    /\ pc = "analyzed"
    /\ analysis.intent = "port_info"
    /\ DOMAIN analysis.params = {"port_name"}
    /\ Matches(1, Lower(query))
    /\ Matches(2, Lower(query))

\* C2: analyze_query returns intent general with empty params exactly when no
\* pattern of the six groups matches the lowercased query, and the intent is
\* always one of the enumeration
C2_GeneralIffNoMatch ==
    pc = "analyzed" =>
        /\ analysis.intent \in Intents
        /\ (analysis.intent = "general") <=> (\A g \in 1..Len(Groups) : ~Matches(g, Lower(query)))
        /\ (analysis.intent = "general") => (analysis.params = NoParams)
        /\ (analysis.params = NoParams) => (analysis.intent = "general")

\* the unrecognized query of the specification is classified general
C2_Witness ==
    /\ pc = "analyzed"
    /\ query = "xyzzy plugh"
    /\ Matching(Lower(query)) = {}
    /\ analysis = General

\* C3: when the region group is the first to match, a captured text that
\* contains a keyword of the region table gives ships_in_area with the
\* coordinates and the name of that entry, any other captured text gives
\* port_info with the captured text as port_name; and a region phrase followed
\* by a keyword of the table gives ships_in_area with that keyword's coordinates
C3_RegionLookup ==
    pc = "analyzed" =>
        LET q == Lower(query)
            first == FirstGroup(q)
            text == Strip(FirstMatch(region_patterns, q).cap)
            hits == KeysIn(regions, text)
        IN  /\ (first = 4 /\ hits # {}) =>
                   /\ analysis.intent = "ships_in_area"
                   /\ \E i \in hits :
                          analysis.params = [lat |-> regions[i].lat, lon |-> regions[i].lon,
                                             region_name |-> regions[i].name]
            /\ (first = 4 /\ hits = {}) =>
                   analysis = [intent |-> "port_info", params |-> [port_name |-> text]]
            /\ \A p \in RegionPhrases, i \in 1..Len(regions) :
                   query = p \o regions[i].key =>
                       /\ analysis.intent = "ships_in_area"
                       /\ analysis.params.lat = regions[i].lat
                       /\ analysis.params.lon = regions[i].lon

\* C4: when the vessel-type group is the first to match, the intent is
\* vessel_type_search and the only param is the canonical type of the first
\* keyword of the table, in table order, that the captured text contains, or
\* the stripped captured text when it contains none
C4_VesselTypeLookup ==
    pc = "analyzed" =>
        LET q == Lower(query)
            text == Strip(FirstMatch(vessel_type_patterns, q).cap)
            hits == KeysIn(vessel_types, text)
        IN  /\ FirstGroup(q) = 5 =>
                   /\ analysis.intent = "vessel_type_search"
                   /\ DOMAIN analysis.params = {"vessel_type"}
                   /\ analysis.params.vessel_type =
                          IF hits = {} THEN text ELSE vessel_types[Least(hits)].value
            /\ query = "navios tipo cargo" =>
                   analysis = [intent |-> "vessel_type_search",
                               params |-> [vessel_type |-> "Cargo"]]

\* a captured text that contains two keywords: the first of the table wins
C4_Witness ==
    /\ pc = "analyzed"
    /\ FirstGroup(Lower(query)) = 5
    /\ LET text == Strip(FirstMatch(vessel_type_patterns, Lower(query)).cap)
       IN  Cardinality({ vessel_types[i].value : i \in KeysIn(vessel_types, text) }) >= 2
    /\ analysis.params.vessel_type = "Cargo"

\* a captured text that contains no keyword is kept as it is
C4_WitnessRaw ==
    /\ pc = "analyzed"
    /\ FirstGroup(Lower(query)) = 5
    /\ analysis = [intent |-> "vessel_type_search", params |-> [vessel_type |-> "xyzzy plugh"]]

\* letters, those outside ASCII included
Letter == Alpha \cup CharsOf(OtherLower) \cup CharsOf(OtherUpper)

\* where the name starts when q has "porto", whitespace, "de", whitespace and
\* a letter at position i; 0 otherwise
PortoDeName(q, i) ==
    LET p1 == i + 5 + RunLen(q, i + 5, Space)
        p2 == p1 + 2 + RunLen(q, p1 + 2, Space)
    IN  IF /\ i + 4 <= Len(q) /\ SubSeq(q, i, i + 4) = "porto"
           /\ p1 > i + 5 /\ p1 + 1 <= Len(q) /\ SubSeq(q, p1, p1 + 1) = "de"
           /\ p2 > p1 + 2 /\ p2 <= Len(q) /\ Char(q, p2) \in Letter
        THEN p2 ELSE 0

\* the positions of q where "porto de " is followed by a name
PortoDeAt(q) == { i \in 1..Len(q) : PortoDeName(q, i) # 0 }

\* the name that follows "porto de " at position i: letters and whitespace
NameAt(q, i) ==
    LET p == PortoDeName(q, i)
    IN  SubSeq(q, p, p - 1 + RunLen(q, p, Letter \cup Space))

\* C5: a query that contains "porto de X" is classified port_info with
\* port_name = X stripped, X being the name that follows "porto de "
C5_PortoDeName ==
    pc = "analyzed" =>
        LET q == Lower(query)
            at == PortoDeAt(q)
        IN  at # {} =>
                analysis = [intent |-> "port_info",
                            params |-> [port_name |-> Strip(NameAt(q, Least(at)))]]

\* where the nine digits start when q has "mmsi", whitespace, an optional ':'
\* or '-', whitespace and at least nine digits at position i; 0 otherwise
MmsiDigits(q, i) ==
    LET p1 == i + 4 + RunLen(q, i + 4, Space)
        p2 == IF p1 <= Len(q) /\ Char(q, p1) \in {":", "-"} THEN p1 + 1 ELSE p1
        p3 == p2 + RunLen(q, p2, Space)
    IN  IF i + 3 <= Len(q) /\ SubSeq(q, i, i + 3) = "mmsi" /\ RunLen(q, p3, Digit) >= 9
        THEN p3 ELSE 0

MmsiAt(q) == { i \in 1..Len(q) : MmsiDigits(q, i) # 0 }

\* C6: a query that no port and no vessel-name pattern matches and that has
\* "mmsi" followed, through optional whitespace and ':' or '-', by nine digits
\* is classified vessel_by_mmsi (the spec's vessel_by_id) with those nine
\* digits as its only param
C6_MmsiNineDigits ==
    pc = "analyzed" =>
        LET q == Lower(query)
            at == MmsiAt(q)
            p == MmsiDigits(q, Least(at))
        IN  (at # {} /\ ~Matches(1, q) /\ ~Matches(2, q)) =>
                analysis = [intent |-> "vessel_by_mmsi",
                            params |-> [mmsi |-> SubSeq(q, p, p + 8)]]

\* "MMSI: " followed by ten digits: the first nine are the param
C6_Witness ==
    /\ pc = "analyzed"
    /\ query = "MMSI: 1234567899"
    /\ analysis = [intent |-> "vessel_by_mmsi", params |-> [mmsi |-> "123456789"]]

InSeq(x, seq) == \E i \in 1..Len(seq) : seq[i] = x

Near(a, b) == a - b <= 5000 /\ b - a <= 5000

\* C7: execute_query invokes exactly one provider operation per intent, with
\* the extracted params: port_info the port lookup, vessel_search the name
\* search, vessel_by_mmsi the lookup by identifier, ships_in_area the area
\* simulation at the extracted coordinates; vessel_type_search and flag_search
\* only the area simulation at (0,0), with no request to the tracking API, and
\* they return only generated vessels of the requested type (whose flag
\* contains the requested text); general invokes nothing
C7_Dispatch ==
    (pc = "executed" /\ op = "execute_query") =>
        LET intent == analysis.intent
            params == analysis.params
        IN  /\ intent = "general" => (calls = <<>> /\ http = <<>>)
            /\ intent # "general" => Len(calls) = 1
            /\ intent = "port_info" =>
                   /\ calls[1].op = "get_port_info"
                   /\ calls[1].args = <<params.port_name>>
                   /\ result = calls[1].ret
                   /\ Len(http) = 1
                   /\ http[1].endpoint = "ports" /\ http[1].name = params.port_name
            /\ intent = "vessel_search" =>
                   /\ calls[1].op = "search_vessels"
                   /\ calls[1].args = <<params.query>>
                   /\ result = calls[1].ret
                   /\ Len(http) = 1
                   /\ http[1].endpoint = "vessels" /\ http[1].name = params.query
            /\ intent = "vessel_by_mmsi" =>
                   /\ calls[1].op = "get_ship_by_mmsi"
                   /\ calls[1].args = <<params.mmsi>>
                   /\ result = calls[1].ret
                   /\ Len(http) = 1
                   /\ http[1].endpoint = "vessels/" \o params.mmsi
            /\ intent = "ships_in_area" =>
                   /\ calls[1].op = "get_ships_in_area"
                   /\ calls[1].args = <<params.lat, params.lon>>
                   /\ result = calls[1].ret
                   /\ http = <<>>
                   /\ \A i \in 1..Len(result.ships) :
                          /\ Near(result.ships[i].latitude, params.lat)
                          /\ Near(result.ships[i].longitude, params.lon)
            /\ intent \in {"vessel_type_search", "flag_search"} =>
                   /\ calls[1].op = "get_ships_in_area"
                   /\ calls[1].args = <<0, 0>>
                   /\ http = <<>>
                   /\ \A i \in 1..Len(result.ships) :
                          /\ InSeq(result.ships[i], calls[1].ret.ships)
                          /\ Near(result.ships[i].latitude, 0)
                          /\ Near(result.ships[i].longitude, 0)
                          /\ intent = "vessel_type_search" =>
                                 Lower(result.ships[i].type) = Lower(params.vessel_type)
                          /\ intent = "flag_search" =>
                                 Contains(Lower(params.flag), Lower(result.ships[i].flag))

\* a flag search that keeps some of the generated vessels and drops others
C7_Witness ==
    /\ pc = "executed"
    /\ op = "execute_query"
    /\ analysis.intent = "flag_search"
    /\ Len(result.ships) > 0
    /\ Len(result.ships) < Len(calls[1].ret.ships)

\* a vessel-type search that keeps some of the generated vessels and drops others
C7_WitnessType ==
    /\ pc = "executed"
    /\ op = "execute_query"
    /\ analysis.intent = "vessel_type_search"
    /\ Len(result.ships) > 0
    /\ Len(result.ships) < Len(calls[1].ret.ships)

\* C8: every result that carries generated vessels (that of get_ships_in_area,
\* and that of execute_query for ships_in_area, vessel_type_search and
\* flag_search) has the note that says the data is simulated
C8_NoteOnSynthetic ==
    (/\ pc = "executed"
     /\ \E i \in 1..Len(calls) : calls[i].op = "get_ships_in_area"
     /\ "ships" \in DOMAIN result
     /\ Len(result.ships) > 0)
    => ("note" \in DOMAIN result /\ result.note = Note)

\* C9: get_ships_in_area returns 5 to 15 vessels, each with course in [0,360),
\* speed in [0,20] and type, flag, destination and status of the vocabularies
C9_AreaSimulation ==
    \A i \in 1..Len(calls) :
        calls[i].op = "get_ships_in_area" =>
            LET ships == calls[i].ret.ships
            IN  /\ DOMAIN calls[i].ret = {"ships", "note"}
                /\ Len(ships) >= 5 /\ Len(ships) <= 15
                /\ \A k \in 1..Len(ships) :
                       /\ ships[k].course >= 0 /\ ships[k].course < 3600
                       /\ ships[k].speed >= 0 /\ ships[k].speed <= 200
                       /\ ships[k].type \in Range(ship_types)
                       /\ ships[k].flag \in Range(ship_flags)
                       /\ ships[k].destination \in Range(ports)
                       /\ ships[k].status \in Range(statuses)

\* the generator at its greatest draws: 15 vessels at course 359.0 and speed 20.0
C9_Witness ==
    /\ pc = "executed"
    /\ op = "get_ships_in_area"
    /\ Len(result.ships) = 15
    /\ \E k \in 1..Len(result.ships) :
           result.ships[k].course = 3590 /\ result.ships[k].speed = 200

\* the generator at its least draws: 5 vessels at course 0.0 and speed 0.0
C9_WitnessLeast ==
    /\ pc = "executed"
    /\ op = "get_ships_in_area"
    /\ Len(result.ships) = 5
    /\ \E k \in 1..Len(result.ships) :
           result.ships[k].course = 0 /\ result.ships[k].speed = 0

\* C10: an operation that calls the tracking API returns a result, never an
\* exception: a status other than 200 gives only an error that carries the
\* status code, an empty port list a not-found error, a raising call or a body
\* that is not JSON an error; get_ships_near_port requests the vessels only
\* after the port lookup answered 200 with a non-empty list
C10_ErrorsAreResults ==
    (pc = "executed" /\ Len(http) > 0) =>
        /\ DOMAIN result \in {{"error"}, {"port"}, {"ship"}, {"ships"}, {"ships", "port"}}
        /\ \A i \in 1..Len(http) :
               LET r == http[i].response
               IN  /\ (r.kind = "response" /\ r.status # 200) =>
                          /\ DOMAIN result = {"error"}
                          /\ Contains(ToString(r.status), result.error)
                   /\ (r.kind = "raise" \/ r.body.json = "invalid") =>
                          DOMAIN result = {"error"}
                   /\ (/\ http[i].endpoint = "ports"
                       /\ r.kind = "response" /\ r.status = 200
                       /\ r.body.json = "list" /\ Len(r.body.items) = 0) =>
                          result = [error |-> "No ports found with name: " \o http[i].name]
        /\ Len(http) <= 2
        /\ Len(http) = 2 =>
               /\ op = "get_ships_near_port"
               /\ http[1].endpoint = "ports"
               /\ http[1].response.kind = "response"
               /\ http[1].response.status = 200
               /\ http[1].response.body.json = "list"
               /\ Len(http[1].response.body.items) > 0
               /\ http[2].endpoint = "vessels"

\* the vessels request of get_ships_near_port answered 500 after the port was found
C10_Witness ==
    /\ pc = "executed"
    /\ op = "get_ships_near_port"
    /\ Len(http) = 2
    /\ http[2].response.kind = "response"
    /\ http[2].response.status = 500
    /\ result = [error |-> "Failed to fetch vessels data: 500"]

\* the port lookup of execute_query answered 404
C10_WitnessPort ==
    /\ pc = "executed"
    /\ op = "execute_query"
    /\ analysis.intent = "port_info"
    /\ http[1].response.kind = "response"
    /\ http[1].response.status = 404
    /\ result = [error |-> "Failed to fetch port data: 404"]

(***************************************************************************)
(* Properties of a session of the chat.                                    *)
(***************************************************************************)
\* the assistant text shown for the query of this interaction
Shown == messages[Len(messages)].content

\* the language model was called and raised
ModelRaised == Len(llm) > 0 /\ llm[1].outcome.kind = "raise"

Occurrences(sub, s) ==
    Cardinality({ i \in 1..(Len(s) - Len(sub) + 1) : SubSeq(s, i, i + Len(sub) - 1) = sub })

Min(a, b) == IF a < b THEN a ELSE b

\* the fields the summary gives of a vessel
SummaryFields == {"name", "mmsi", "type", "flag", "destination"}

C11_WitnessShort ==
    /\ pc = "answered"
    /\ ModelRaised
    /\ HasShips(result)
    /\ Len(result.ships) = 4
    /\ Contains("Desconhecido (MMSI: 200000004)", Shown)

\* the sum of the counts of a value_counts()
RECURSIVE Total(_)
Total(counts) ==
    IF DOMAIN counts = {} THEN 0
    ELSE LET v == CHOOSE v \in DOMAIN counts : TRUE
         IN  counts[v] + Total([w \in DOMAIN counts \ {v} |-> counts[w]])

\* C12: whenever the visualization runs on a vessel list, it computes the
\* counts per type and per flag, and each of the two sums to the length of
\* the list: every vessel of the list is counted.
C12_CountsCoverList ==
    (pc = "answered" /\ viz # None) =>
        /\ "type_counts" \in DOMAIN viz
        /\ "flag_counts" \in DOMAIN viz
        /\ Total(viz.type_counts) = Len(result.ships)
        /\ Total(viz.flag_counts) = Len(result.ships)

\* the order of the positions of an interaction
Chain ==
    { <<"idle", "submitted">>, <<"answered", "submitted">>, <<"submitted", "analyzed">>,
      <<"analyzed", "executed">>, <<"executed", "answered">> }

\* where an interaction stands, what has been called so far
CallsSoFar ==
    /\ pc \in {"idle", "submitted", "analyzed"} => http = <<>> /\ calls = <<>> /\ llm = <<>>
    /\ pc \in {"submitted", "analyzed"} => result = None
    /\ pc = "submitted" => analysis = None
    /\ pc = "executed" => llm = <<>> /\ result # None
    /\ pc = "answered" =>
           /\ Len(llm) = 1
           /\ llm[1].prompt = prompt_text(query, result)
           /\ messages[Len(messages) - 1] = Message("user", query)
    /\ Len(http) <= 1
    /\ Len(calls) <= 1
    /\ Len(llm) <= 1

\* one step of an interaction: only execute_query issues requests to the
\* tracking API, only the step after it calls the language model
ChainStep ==
    /\ <<pc, pc'>> \in Chain
    /\ http' # http => (pc' = "executed" \/ (pc' = "submitted" /\ http' = <<>>))
    /\ llm' # llm => (pc = "executed" \/ (pc' = "submitted" /\ llm' = <<>>))
    /\ pc # "executed" => (pc' = "submitted" \/ UNCHANGED <<messages, query>>)
    /\ pc = "executed" => UNCHANGED <<http, calls, result, analysis, query>>

\* C13: an interaction goes through analyze_query, execute_query and
\* generate_response in this order; the language model is called once for
\* each query, after execute_query has returned and with a prompt made from
\* its result; at most one request goes to the tracking API for a query;
\* a request that failed is not issued again.
C13_SequentialChain == [](CallsSoFar) /\ [][ChainStep]_vars

\* the request to the tracking API and the call of the language model both
\* failed, and each was made once
C13_Witness ==
    /\ pc = "answered"
    /\ Len(http) = 1
    /\ http[1].response.kind = "raise"
    /\ Len(llm) = 1
    /\ llm[1].outcome.kind = "raise"
    /\ Turns = 2

\* C15: when the result of execute_query has an error field, the
\* assistant text shown and appended for the query contains the text of
\* that field.
C15_ErrorShown ==
    (pc = "answered" /\ "error" \in DOMAIN result) =>
        /\ messages[Len(messages)].role = "assistant"
        /\ Contains(result.error, Shown)

\* assistant, user, assistant, ...: the roles by position
Alternates ==
    \A i \in 1..Len(messages) :
        messages[i].role = IF i % 2 = 1 THEN "assistant" ELSE "user"

\* the transcript at every moment of a session
TranscriptShape ==
    /\ messages[1] = Greeting
    /\ Alternates
    /\ pc \in {"idle", "answered"} => Len(messages) % 2 = 1
    /\ pc \in {"submitted", "analyzed", "executed"} =>
           /\ Len(messages) % 2 = 0
           /\ messages[Len(messages)] = Message("user", query)

\* what a step does to the transcript: nothing, or one message at the end
TranscriptStep ==
    /\ \A i \in 1..Len(messages) : i <= Len(messages') /\ messages'[i] = messages[i]
    /\ pc' = "submitted" => messages' = Append(messages, Message("user", query'))
    /\ pc' = "answered" =>
           /\ Len(messages') = Len(messages) + 1
           /\ messages'[Len(messages')].role = "assistant"
           /\ messages'[Len(messages')].content \in
                  { generate_response(query, result, g).ret : g \in GeminiOutcomes }
    /\ pc' \in {"analyzed", "executed"} => messages' = messages

Searched ==
    /\ pc = "executed"
    /\ Len(calls) = 1
    /\ calls[1].op = "search_vessels"
    /\ "ships" \in DOMAIN result

\* the limit of the call: the second argument, 10 when it is left out
LimitOf(call) == IF Len(call.args) = 2 THEN call.args[2] ELSE 10

\* C14: a search_vessels that succeeds on the upstream listing L returns
\* the first min(limit, len(L)) vessels of L in the order of L, and L
\* itself when len(L) <= limit.
C14_SearchPrefix ==
    Searched =>
        LET L == http[1].response.body.items
            limit == LimitOf(calls[1])
        IN  /\ Len(result.ships) = Min(limit, Len(L))
            /\ \A i \in 1..Len(result.ships) : result.ships[i] = L[i]
            /\ Len(L) <= limit => result.ships = L

\* a listing longer than the limit was cut to its first five vessels
C14_Witness ==
    /\ Searched
    /\ LimitOf(calls[1]) = 5
    /\ Len(http[1].response.body.items) = MaxUpstream
    /\ Len(result.ships) = 5
    /\ result.ships[5] = UpstreamVessel(5)

\* execute_query cut a listing of more than ten vessels to ten
C14_WitnessDefault ==
    /\ Searched
    /\ op = "execute_query"
    /\ Len(http[1].response.body.items) > 10
    /\ Len(result.ships) = 10
====
